---- MODULE Spec2Model ----
(***************************************************************************)
(* In-place rectangular matrix transposition after Gustavson and Walker    *)
(* (ntt/src/permute/gw18.rs).  The free functions transpose,               *)
(* transpose_join, partition_transpose, shuffle, unshuffle and exchange    *)
(* are modelled as a fork-join machine over one buffer: every call is a    *)
(* frame holding the slice it was given, its arguments and its position;   *)
(* rayon::join creates two child frames that run interleaved, a plain call *)
(* creates one; a frame runs only while it has no child.                   *)
(*                                                                         *)
(* The build modelled is the test profile: COPY_THRESHOLD is 4 and         *)
(* debug_assert is compiled in.  Offsets are 0-based as in the source;     *)
(* the element at offset x of the buffer is buf[x + 1].                    *)
(***************************************************************************)
EXTENDS Integers, Sequences, FiniteSets, TLC

\* Largest rows and cols of a top-level transpose call.
MaxDim == 6
\* Largest a, b and m of a direct shuffle, unshuffle or exchange call.
MaxArg == 4
\* Largest block count and block side of a direct transpose_join or
\* partition_transpose call.
MaxBlocks == 3
MaxSide == 2
\* Call depth at which the stack is exhausted.
MaxDepth == 20

COPY_THRESHOLD == 4
PAR_THRESHOLD == 131072
SHUFFLE_PAR_THRESHOLD == 1048576

VARIABLES
    buf,      \* the caller's buffer
    frames,   \* call path -> frame of every active call
    status,   \* "running", "done", "panic" or "stack_overflow"
    test,     \* the top-level call under test and its arguments
    round,    \* which top-level call of the test is running (1 or 2)
    ref,      \* result of the first run, kept for the comparison of two runs
    parT,     \* fork threshold of transpose, transpose_join, partition_transpose
    parS      \* fork threshold of shuffle and unshuffle

vars == <<buf, frames, status, test, round, ref, parT, parS>>
hvars == <<test, round, ref, parT, parS>>

Root == << >>

Min(x, y) == IF x < y THEN x ELSE y
Max(x, y) == IF x < y THEN y ELSE x

(***************************************************************************)
(* Frames                                                                  *)
(***************************************************************************)

\* A call of fn on the slice [lo, lo + n) with arguments a, b, m.
\* i counts the element swaps done by swap_with_slice; rets counts the
\* callees that have returned to this frame.
Frame(fn, lo, n, a, b, m) ==
    [fn |-> fn, lo |-> lo, n |-> n, a |-> a, b |-> b, m |-> m,
     pc |-> "start", i |-> 0, rets |-> 0]

Kids(id) == {Append(id, 1), Append(id, 2)} \cap DOMAIN frames

Parent(id) == SubSeq(id, 1, Len(id) - 1)

Runnable(id) == id \in DOMAIN frames /\ Kids(id) = {} /\ status = "running"

\* A sub-slice taken with split_at_mut or a range index: inside the parent,
\* or the slicing panics.
Inside(p, c) == c.n >= 0 /\ p.lo <= c.lo /\ c.lo + c.n <= p.lo + p.n

Panic == status' = "panic" /\ UNCHANGED <<buf, frames>>

\* Call the frames of kids (slot -> frame) and continue at pc2 once all of
\* them have returned.
Call(id, pc2, kids) ==
    IF \E k \in DOMAIN kids : ~Inside(frames[id], kids[k])
    THEN Panic
    ELSE IF Len(id) >= MaxDepth
    THEN status' = "stack_overflow" /\ UNCHANGED <<buf, frames>>
    ELSE /\ frames' = [j \in DOMAIN frames \cup {Append(id, k) : k \in DOMAIN kids} |->
                         IF j = id THEN [frames[id] EXCEPT !.pc = pc2]
                         ELSE IF j \in DOMAIN frames THEN frames[j]
                         ELSE kids[j[Len(j)]]]
         /\ UNCHANGED <<buf, status>>

Goto(id, pc2) ==
    /\ frames' = [frames EXCEPT ![id].pc = pc2]
    /\ UNCHANGED <<buf, status>>

\* The frames left when call id returns to its caller.
Popped(id) ==
    [j \in DOMAIN frames \ {id} |->
        IF id # Root /\ j = Parent(id)
        THEN [frames[j] EXCEPT !.rets = @ + 1]
        ELSE frames[j]]

Return(id) == frames' = Popped(id) /\ UNCHANGED <<buf, status>>

SwapAt(s, x, y) == [s EXCEPT ![x + 1] = s[y + 1], ![y + 1] = s[x + 1]]

(***************************************************************************)
(* exchange (gw18.rs 322-340)                                              *)
(***************************************************************************)

\* Length of the two slices handed to swap_with_slice.
ExchangeLen(f) == Min(f.a, f.b)

\* Offset of the right slice of swap_with_slice: split_at_mut(a) when a = b,
\* else the slice after the middle of length |a - b|.
ExchangeRight(f) == Max(f.a, f.b)

\* The two offsets swapped by step i of swap_with_slice.
ExchangePair(f) == <<f.lo + f.i, f.lo + ExchangeRight(f) + f.i>>

\* Faulty variant: the a < b branch recurses on the whole slice with the lengths it had.
ExchangeRest_NoProgress(f) ==
    IF f.a > f.b
    THEN Frame("exchange", f.lo + f.b, f.n - f.b, f.a - f.b, f.b, 0)
    ELSE Frame("exchange", f.lo, f.n, f.a, f.b, 0)

\* The recursive call: exchange(&mut values[b..], a - b, b) when a > b,
\* exchange(&mut values[..b], a, b - a) when a < b.
ExchangeRest(f) ==
    IF f.a > f.b
    THEN Frame("exchange", f.lo + f.b, f.n - f.b, f.a - f.b, f.b, 0)
    ELSE Frame("exchange", f.lo, f.b, f.a, f.b - f.a, 0)

ExchangeStart(id) ==
    LET f == frames[id] IN
    /\ Runnable(id)
    /\ f.fn = "exchange" /\ f.pc = "start"
    /\ IF f.n # f.a + f.b
       THEN Panic                                   \* debug_assert_eq
       ELSE IF f.n - ExchangeRight(f) # ExchangeLen(f)
       THEN Panic                                   \* swap_with_slice lengths
       ELSE Goto(id, "swap")
    /\ UNCHANGED hvars

ExchangeSwap(id) ==
    LET f == frames[id]
        p == ExchangePair(f) IN
    /\ Runnable(id)
    /\ f.fn = "exchange" /\ f.pc = "swap" /\ f.i < ExchangeLen(f)
    /\ IF \E x \in {p[1], p[2]} : x < f.lo \/ x >= f.lo + f.n
       THEN Panic
       ELSE /\ buf' = SwapAt(buf, p[1], p[2])
            /\ frames' = [frames EXCEPT ![id].i = @ + 1]
            /\ status' = status
    /\ UNCHANGED hvars

ExchangeRecurse(id) ==
    LET f == frames[id] IN
    /\ Runnable(id)
    /\ f.fn = "exchange" /\ f.pc = "swap" /\ f.i = ExchangeLen(f)
    /\ IF f.a = f.b
       THEN Return(id)
       ELSE Call(id, "ret", 1 :> ExchangeRest(f))
    /\ UNCHANGED hvars

(***************************************************************************)
(* shuffle and unshuffle (gw18.rs 253-320, 342-344)                        *)
(***************************************************************************)

RECURSIVE FloorLog2(_)
FloorLog2(x) == IF x < 2 THEN 0 ELSE 1 + FloorLog2(x \div 2)

\* 2_usize.pow((m as f64 - 1.).log2() as u32), called with m >= 2 only.
largest_power_of_two(m) == 2 ^ FloorLog2(m - 1)

m_left(f) == largest_power_of_two(f.m)
m_right(f) == f.m - m_left(f)

\* The guard of the middle exchange.
MiddleGuard(f) == (f.a * m_right(f) > 0) /\ (f.b * m_left(f) > 0)

\* Faulty variant: the middle region starts at a * m_right instead of a * m_left.
ShuffleMiddle_WrongStart(f) ==
    Frame("exchange", f.lo + f.a * m_right(f),
          f.a * m_right(f) + f.b * m_left(f),
          f.a * m_right(f), f.b * m_left(f), 0)

\* shuffle: exchange(&mut values[start..end], a * m_right, b * m_left)
ShuffleMiddle(f) ==
    Frame("exchange", f.lo + f.a * m_left(f),
          f.a * m_right(f) + f.b * m_left(f),
          f.a * m_right(f), f.b * m_left(f), 0)

\* Faulty variant: unshuffle's exchange with the argument order of shuffle's.
UnshuffleMiddle_AsShuffle(f) ==
    Frame("exchange", f.lo + f.a * m_left(f),
          f.a * m_right(f) + f.b * m_left(f),
          f.a * m_right(f), f.b * m_left(f), 0)

\* unshuffle: exchange(&mut values[start..end], b * m_left, a * m_right)
UnshuffleMiddle(f) ==
    Frame("exchange", f.lo + f.a * m_left(f),
          f.b * m_left(f) + f.a * m_right(f),
          f.b * m_left(f), f.a * m_right(f), 0)

\* values.split_at_mut((a + b) * m_left) and the two recursive calls.
HalfLeft(f) ==
    Frame(f.fn, f.lo, (f.a + f.b) * m_left(f), f.a, f.b, m_left(f))
\* Faulty variant: the right half starts one element early, inside the left half.
HalfRight_Overlapping(f) ==
    Frame(f.fn, f.lo + (f.a + f.b) * m_left(f) - 1,
          f.n - (f.a + f.b) * m_left(f) + 1, f.a, f.b, m_right(f))

HalfRight(f) ==
    Frame(f.fn, f.lo + (f.a + f.b) * m_left(f),
          f.n - (f.a + f.b) * m_left(f), f.a, f.b, m_right(f))

ShuffleStart(id) ==
    LET f == frames[id] IN
    /\ Runnable(id)
    /\ f.fn = "shuffle" /\ f.pc = "start"
    /\ IF f.n # (f.a + f.b) * f.m
       THEN Panic                                   \* debug_assert_eq
       ELSE IF f.m <= 1
       THEN Return(id)
       ELSE IF MiddleGuard(f)
       THEN Call(id, "split", 1 :> ShuffleMiddle(f))
       ELSE Goto(id, "split")
    /\ UNCHANGED hvars

ShuffleSplit(id) ==
    LET f == frames[id] IN
    /\ Runnable(id)
    /\ f.fn = "shuffle" /\ f.pc = "split"
    /\ IF f.n < parS
       THEN Call(id, "right", 1 :> HalfLeft(f))
       ELSE Call(id, "ret", 1 :> HalfLeft(f) @@ 2 :> HalfRight(f))
    /\ UNCHANGED hvars

ShuffleRight(id) ==
    LET f == frames[id] IN
    /\ Runnable(id)
    /\ f.fn = "shuffle" /\ f.pc = "right"
    /\ Call(id, "ret", 2 :> HalfRight(f))
    /\ UNCHANGED hvars

\* Faulty variant: unshuffle runs its exchange before the recursive calls.
UnshuffleStart_ExchangeFirst(id) ==
    LET f == frames[id] IN
    /\ Runnable(id)
    /\ f.fn = "unshuffle" /\ f.pc = "start"
    /\ IF f.n # (f.a + f.b) * f.m
       THEN Panic
       ELSE IF f.m <= 1
       THEN Return(id)
       ELSE IF MiddleGuard(f)
       THEN Call(id, "right", 1 :> UnshuffleMiddle(f))
       ELSE Call(id, "right", 1 :> HalfLeft(f))
    /\ UNCHANGED hvars

UnshuffleStart(id) ==
    LET f == frames[id] IN
    /\ Runnable(id)
    /\ f.fn = "unshuffle" /\ f.pc = "start"
    /\ IF f.n # (f.a + f.b) * f.m
       THEN Panic                                   \* debug_assert_eq
       ELSE IF f.m <= 1
       THEN Return(id)
       ELSE IF f.n < parS
       THEN Call(id, "right", 1 :> HalfLeft(f))
       ELSE Call(id, "middle", 1 :> HalfLeft(f) @@ 2 :> HalfRight(f))
    /\ UNCHANGED hvars

UnshuffleRight(id) ==
    LET f == frames[id] IN
    /\ Runnable(id)
    /\ f.fn = "unshuffle" /\ f.pc = "right"
    /\ Call(id, "middle", 2 :> HalfRight(f))
    /\ UNCHANGED hvars

UnshuffleExchange(id) ==
    LET f == frames[id] IN
    /\ Runnable(id)
    /\ f.fn = "unshuffle" /\ f.pc = "middle"
    /\ IF MiddleGuard(f)
       THEN Call(id, "ret", 1 :> UnshuffleMiddle(f))
       ELSE Return(id)
    /\ UNCHANGED hvars

(***************************************************************************)
(* square::transpose and copy::transpose (collaborators, by contract)      *)
(***************************************************************************)

\* The buffer with the rows x cols row-major matrix held in the slice
\* [lo, lo + rows * cols) replaced by its transpose.
TransposeSlice(s, lo, rows, cols) ==
    [k \in 1..Len(s) |->
        IF k - 1 >= lo /\ k - 1 < lo + rows * cols
        THEN LET p == k - 1 - lo
                 j == p \div rows
                 i == p % rows
             IN s[lo + i * cols + j + 1]
        ELSE s[k]]

SquareTranspose(s, lo, size) == TransposeSlice(s, lo, size, size)

CopyTranspose(s, lo, rows, cols) == TransposeSlice(s, lo, rows, cols)

(***************************************************************************)
(* transpose_join and partition_transpose (gw18.rs 192-250)                *)
(***************************************************************************)

blocks_top(f) == f.a \div 2
blocks_bottom(f) == f.a - blocks_top(f)

\* values.split_at_mut(blocks_top * size * size) and the two recursive calls.
BlocksTop(f) ==
    Frame(f.fn, f.lo, blocks_top(f) * f.b * f.b, blocks_top(f), f.b, 0)
BlocksBottom(f) ==
    Frame(f.fn, f.lo + blocks_top(f) * f.b * f.b,
          f.n - blocks_top(f) * f.b * f.b, blocks_bottom(f), f.b, 0)

\* Faulty variant: the merge takes the bottom rows for the top rows.
JoinMerge_SwappedHalves(f) ==
    Frame("shuffle", f.lo, f.n, blocks_bottom(f) * f.b, blocks_top(f) * f.b, f.b)

\* shuffle(values, blocks_top * size, blocks_bottom * size, size)
JoinMerge(f) ==
    Frame("shuffle", f.lo, f.n, blocks_top(f) * f.b, blocks_bottom(f) * f.b, f.b)

\* unshuffle(values, blocks_top * size, blocks_bottom * size, size)
PartitionSplit(f) ==
    Frame("unshuffle", f.lo, f.n, blocks_top(f) * f.b, blocks_bottom(f) * f.b, f.b)

TransposeJoinStart(id) ==
    LET f == frames[id] IN
    /\ Runnable(id)
    /\ f.fn = "transpose_join" /\ f.pc = "start"
    /\ IF f.n # f.a * f.b * f.b \/ f.n = 0
       THEN Panic                                   \* the two debug_asserts
       ELSE IF f.a = 1
       THEN /\ buf' = SquareTranspose(buf, f.lo, f.b)
            /\ frames' = Popped(id)
            /\ status' = status
       ELSE IF f.n < parT
       THEN Call(id, "bottom", 1 :> BlocksTop(f))
       ELSE Call(id, "merge", 1 :> BlocksTop(f) @@ 2 :> BlocksBottom(f))
    /\ UNCHANGED hvars

TransposeJoinBottom(id) ==
    LET f == frames[id] IN
    /\ Runnable(id)
    /\ f.fn = "transpose_join" /\ f.pc = "bottom"
    /\ Call(id, "merge", 2 :> BlocksBottom(f))
    /\ UNCHANGED hvars

TransposeJoinMerge(id) ==
    LET f == frames[id] IN
    /\ Runnable(id)
    /\ f.fn = "transpose_join" /\ f.pc = "merge"
    /\ Call(id, "ret", 1 :> JoinMerge(f))
    /\ UNCHANGED hvars

PartitionStart(id) ==
    LET f == frames[id] IN
    /\ Runnable(id)
    /\ f.fn = "partition_transpose" /\ f.pc = "start"
    /\ IF f.n # f.a * f.b * f.b \/ f.n = 0
       THEN Panic                                   \* the two debug_asserts
       ELSE IF f.a = 1
       THEN /\ buf' = SquareTranspose(buf, f.lo, f.b)
            /\ frames' = Popped(id)
            /\ status' = status
       ELSE Call(id, "split", 1 :> PartitionSplit(f))
    /\ UNCHANGED hvars

PartitionSplitStep(id) ==
    LET f == frames[id] IN
    /\ Runnable(id)
    /\ f.fn = "partition_transpose" /\ f.pc = "split"
    /\ IF f.n < parT
       THEN Call(id, "bottom", 1 :> BlocksTop(f))
       ELSE Call(id, "ret", 1 :> BlocksTop(f) @@ 2 :> BlocksBottom(f))
    /\ UNCHANGED hvars

PartitionBottom(id) ==
    LET f == frames[id] IN
    /\ Runnable(id)
    /\ f.fn = "partition_transpose" /\ f.pc = "bottom"
    /\ Call(id, "ret", 2 :> BlocksBottom(f))
    /\ UNCHANGED hvars

(***************************************************************************)
(* transpose (gw18.rs 128-190); f.a is rows, f.b is cols                   *)
(***************************************************************************)

\* Tall matrix: squares = rows / cols, remainder = rows % cols.
\* Wide matrix: squares = cols / rows, remainder = cols % rows.
squares(f) == IF f.a > f.b THEN f.a \div f.b ELSE f.b \div f.a
remainder(f) == IF f.a > f.b THEN f.a % f.b ELSE f.b % f.a
side(f) == Min(f.a, f.b)

\* values.split_at_mut(squares * side * side)
HeadLen(f) == squares(f) * side(f) * side(f)

TallHead(f) == Frame("transpose_join", f.lo, HeadLen(f), squares(f), f.b, 0)
TallTail(f) ==
    Frame("transpose", f.lo + HeadLen(f), f.n - HeadLen(f), remainder(f), f.b, 0)
\* Faulty variant: the two block lengths of the merging shuffle exchanged.
TallMerge_SwappedBlocks(f) ==
    Frame("shuffle", f.lo, f.n, remainder(f), squares(f) * f.b, f.b)

\* shuffle(values, squares * cols, remainder, cols)
TallMerge(f) == Frame("shuffle", f.lo, f.n, squares(f) * f.b, remainder(f), f.b)

WideHead(f) == Frame("partition_transpose", f.lo, HeadLen(f), squares(f), f.a, 0)
WideTail(f) ==
    Frame("transpose", f.lo + HeadLen(f), f.n - HeadLen(f), f.a, remainder(f), 0)
\* unshuffle(values, squares * rows, remainder, rows)
WideSplit(f) == Frame("unshuffle", f.lo, f.n, squares(f) * f.a, remainder(f), f.a)

\* Faulty variant: the length is asserted after the trivial shapes have returned.
TransposeStart_LateAssert(id) ==
    LET f == frames[id]
        rows == f.a
        cols == f.b
        size == rows * cols
    IN
    /\ Runnable(id)
    /\ f.fn = "transpose" /\ f.pc = "start"
    /\ IF rows <= 1 \/ cols <= 1
       THEN Return(id)
       ELSE IF f.n # size
       THEN Panic
       ELSE IF rows = cols
       THEN /\ buf' = SquareTranspose(buf, f.lo, rows)
            /\ frames' = Popped(id)
            /\ status' = status
       ELSE IF size <= COPY_THRESHOLD
       THEN /\ buf' = CopyTranspose(buf, f.lo, rows, cols)
            /\ frames' = Popped(id)
            /\ status' = status
       ELSE IF rows > cols
       THEN IF remainder(f) = 0
            THEN Call(id, "ret", 1 :> Frame("transpose_join", f.lo, f.n, squares(f), cols, 0))
            ELSE IF size < parT
            THEN Call(id, "tall_tail", 1 :> TallHead(f))
            ELSE Call(id, "tall_merge", 1 :> TallHead(f) @@ 2 :> TallTail(f))
       ELSE IF remainder(f) = 0
            THEN Call(id, "ret", 1 :> Frame("partition_transpose", f.lo, f.n, squares(f), rows, 0))
            ELSE Call(id, "wide_split", 1 :> WideSplit(f))
    /\ UNCHANGED hvars

TransposeStart(id) ==
    LET f == frames[id]
        rows == f.a
        cols == f.b
        size == rows * cols
    IN
    /\ Runnable(id)
    /\ f.fn = "transpose" /\ f.pc = "start"
    /\ IF f.n # size
       THEN Panic                                   \* assert_eq
       ELSE IF rows <= 1 \/ cols <= 1
       THEN Return(id)
       ELSE IF rows = cols
       THEN /\ buf' = SquareTranspose(buf, f.lo, rows)
            /\ frames' = Popped(id)
            /\ status' = status
       ELSE IF size <= COPY_THRESHOLD
       THEN /\ buf' = CopyTranspose(buf, f.lo, rows, cols)
            /\ frames' = Popped(id)
            /\ status' = status
       ELSE IF rows > cols
       THEN IF remainder(f) = 0
            THEN Call(id, "ret", 1 :> Frame("transpose_join", f.lo, f.n, squares(f), cols, 0))
            ELSE IF size < parT
            THEN Call(id, "tall_tail", 1 :> TallHead(f))
            ELSE Call(id, "tall_merge", 1 :> TallHead(f) @@ 2 :> TallTail(f))
       ELSE IF remainder(f) = 0
            THEN Call(id, "ret", 1 :> Frame("partition_transpose", f.lo, f.n, squares(f), rows, 0))
            ELSE Call(id, "wide_split", 1 :> WideSplit(f))
    /\ UNCHANGED hvars

TransposeTallTail(id) ==
    LET f == frames[id] IN
    /\ Runnable(id)
    /\ f.fn = "transpose" /\ f.pc = "tall_tail"
    /\ Call(id, "tall_merge", 2 :> TallTail(f))
    /\ UNCHANGED hvars

TransposeTallMerge(id) ==
    LET f == frames[id] IN
    /\ Runnable(id)
    /\ f.fn = "transpose" /\ f.pc = "tall_merge"
    /\ Call(id, "ret", 1 :> TallMerge(f))
    /\ UNCHANGED hvars

\* Faulty variant: the forked branch transposes the tail as remainder x rows.
TransposeWideSplit_ForkDiverges(id) ==
    LET f == frames[id] IN
    /\ Runnable(id)
    /\ f.fn = "transpose" /\ f.pc = "wide_split"
    /\ IF f.n < parT
       THEN Call(id, "wide_tail", 1 :> WideHead(f))
       ELSE Call(id, "ret", 1 :> WideHead(f)
                         @@ 2 :> Frame("transpose", f.lo + HeadLen(f), f.n - HeadLen(f),
                                       remainder(f), f.a, 0))
    /\ UNCHANGED hvars

TransposeWideSplit(id) ==
    LET f == frames[id] IN
    /\ Runnable(id)
    /\ f.fn = "transpose" /\ f.pc = "wide_split"
    /\ IF f.n < parT
       THEN Call(id, "wide_tail", 1 :> WideHead(f))
       ELSE Call(id, "ret", 1 :> WideHead(f) @@ 2 :> WideTail(f))
    /\ UNCHANGED hvars

TransposeWideTail(id) ==
    LET f == frames[id] IN
    /\ Runnable(id)
    /\ f.fn = "transpose" /\ f.pc = "wide_tail"
    /\ Call(id, "ret", 2 :> WideTail(f))
    /\ UNCHANGED hvars

\* The end of a function body whose last statement was a call.
FnReturn(id) ==
    /\ Runnable(id)
    /\ frames[id].pc = "ret"
    /\ Return(id)
    /\ UNCHANGED hvars

(***************************************************************************)
(* Top-level calls.  A test is one call (or a pair of calls, for the       *)
(* round trips) on the buffer 0, 1, ..., n - 1, as tests::test_size builds *)
(* it.  A transpose test runs twice on the same input: first with the      *)
(* thresholds of the source, under which no call of these sizes forks,     *)
(* then with both thresholds lowered to 0, under which every call forks.   *)
(***************************************************************************)

Tests ==
    {[kind |-> "transpose", a |-> x[1], b |-> x[2], m |-> 0, n |-> x[1] * x[2] + x[3]] :
        x \in {y \in (0..MaxDim) \X (0..MaxDim) \X {-1, 0, 1} : y[1] * y[2] + y[3] >= 0}}
    \cup
    {[kind |-> k, a |-> a, b |-> b, m |-> m, n |-> (a + b) * m] :
        k \in {"shuffle", "unshuffle", "shuffle_unshuffle", "unshuffle_shuffle"},
        a \in 0..MaxArg, b \in 0..MaxArg, m \in 0..MaxArg}
    \cup
    {[kind |-> "exchange", a |-> a, b |-> b, m |-> 0, n |-> a + b] :
        a \in 0..MaxArg, b \in 0..MaxArg}
    \cup
    {[kind |-> "transpose_join", a |-> k, b |-> s, m |-> 0, n |-> k * s * s] :
        k \in 1..MaxBlocks, s \in 1..MaxSide}

Input(t) == [k \in 1..t.n |-> k - 1]

FirstCall(t) ==
    CASE t.kind = "transpose" -> Frame("transpose", 0, t.n, t.a, t.b, 0)
      [] t.kind = "transpose_join" -> Frame("transpose_join", 0, t.n, t.a, t.b, 0)
      [] t.kind = "exchange" -> Frame("exchange", 0, t.n, t.a, t.b, 0)
      [] t.kind \in {"shuffle", "shuffle_unshuffle"} ->
            Frame("shuffle", 0, t.n, t.a, t.b, t.m)
      [] OTHER -> Frame("unshuffle", 0, t.n, t.a, t.b, t.m)

SecondCall(t) ==
    IF t.kind = "shuffle_unshuffle"
    THEN Frame("unshuffle", 0, t.n, t.a, t.b, t.m)
    ELSE Frame("shuffle", 0, t.n, t.a, t.b, t.m)

Idle == frames = << >> /\ status = "running"

\* The second call of a round trip, on the buffer the first call left.
Inverse ==
    /\ Idle /\ round = 1
    /\ test.kind \in {"shuffle_unshuffle", "unshuffle_shuffle"}
    /\ ref' = buf
    /\ frames' = (Root :> SecondCall(test))
    /\ round' = 2
    /\ UNCHANGED <<buf, status, test, parT, parS>>

\* The second run of a transpose test: the same input, forks forced.
Rerun ==
    /\ Idle /\ round = 1
    /\ test.kind = "transpose"
    /\ ref' = buf
    /\ buf' = Input(test)
    /\ frames' = (Root :> FirstCall(test))
    /\ round' = 2
    /\ parT' = 0
    /\ parS' = 0
    /\ UNCHANGED <<status, test>>

Finish ==
    /\ Idle
    /\ round = 2 \/ test.kind \notin {"transpose", "shuffle_unshuffle", "unshuffle_shuffle"}
    /\ status' = "done"
    /\ UNCHANGED <<buf, frames, test, round, ref, parT, parS>>

Init ==
    /\ test \in Tests
    /\ buf = Input(test)
    /\ frames = (Root :> FirstCall(test))
    /\ status = "running"
    /\ round = 1
    /\ ref = << >>
    /\ parT = PAR_THRESHOLD
    /\ parS = SHUFFLE_PAR_THRESHOLD

Next ==
    \/ \E id \in DOMAIN frames : ExchangeStart(id)
    \/ \E id \in DOMAIN frames : ExchangeSwap(id)
    \/ \E id \in DOMAIN frames : ExchangeRecurse(id)
    \/ \E id \in DOMAIN frames : ShuffleStart(id)
    \/ \E id \in DOMAIN frames : ShuffleSplit(id)
    \/ \E id \in DOMAIN frames : ShuffleRight(id)
    \/ \E id \in DOMAIN frames : UnshuffleStart(id)
    \/ \E id \in DOMAIN frames : UnshuffleRight(id)
    \/ \E id \in DOMAIN frames : UnshuffleExchange(id)
    \/ \E id \in DOMAIN frames : TransposeJoinStart(id)
    \/ \E id \in DOMAIN frames : TransposeJoinBottom(id)
    \/ \E id \in DOMAIN frames : TransposeJoinMerge(id)
    \/ \E id \in DOMAIN frames : PartitionStart(id)
    \/ \E id \in DOMAIN frames : PartitionSplitStep(id)
    \/ \E id \in DOMAIN frames : PartitionBottom(id)
    \/ \E id \in DOMAIN frames : TransposeStart(id)
    \/ \E id \in DOMAIN frames : TransposeTallTail(id)
    \/ \E id \in DOMAIN frames : TransposeTallMerge(id)
    \/ \E id \in DOMAIN frames : TransposeWideSplit(id)
    \/ \E id \in DOMAIN frames : TransposeWideTail(id)
    \/ \E id \in DOMAIN frames : FnReturn(id)
    \/ Inverse
    \/ Rerun
    \/ Finish

Spec == Init /\ [][Next]_vars

\* Every enabled step is eventually taken: a running call is never suspended
\* for good (the pool keeps executing runnable tasks).
FairSpec == Spec /\ WF_vars(Next)

(***************************************************************************)
(* Properties                                                              *)
(***************************************************************************)

ValidTranspose == test.kind = "transpose" /\ test.n = test.a * test.b

\* A top-level call has returned (the first of a test, or the second).
Returned == frames = << >> /\ status \in {"running", "done"}

Aborted == status \in {"panic", "stack_overflow"}

\* C1: transpose(V, (rows, cols)) with |V| = rows * cols returns with
\* V[j * rows + i] = old_V[i * cols + j] for all i < rows, j < cols, whatever
\* branch is taken, and does not abort.
C1_TransposeCorrect ==
    ValidTranspose =>
        /\ ~Aborted
        /\ Returned =>
              \A i \in 0..(test.a - 1), j \in 0..(test.b - 1) :
                  buf[j * test.a + i + 1] = Input(test)[i * test.b + j + 1]

\* A 5 x 3 transpose (tall, remainder 2, whose tail recurses into the wide
\* branch) has returned from its forked run.
C1_Witness ==
    /\ ValidTranspose /\ test.a = 5 /\ test.b = 3
    /\ status = "done" /\ parT = 0
    /\ buf[2] = 3

\* C2: unshuffle after shuffle, and shuffle after unshuffle, give back the
\* buffer they started from, for all a, b, m >= 0, and neither aborts.
C2_RoundTrip ==
    test.kind \in {"shuffle_unshuffle", "unshuffle_shuffle"} =>
        /\ ~Aborted
        /\ (Returned /\ round = 2) => buf = Input(test)

\* A round trip whose first call moved elements has completed.
C2_Witness ==
    /\ test.kind = "shuffle_unshuffle" /\ test.m = 3
    /\ status = "done"
    /\ ref # Input(test)
    /\ buf = Input(test)

\* C3 as stated: shuffle rewrites A0 B0 A1 B1 ... A_{m-1} B_{m-1} to
\* (A0 A1 ... A_{m-1})(B0 B1 ... B_{m-1}).
C3_ShuffleSeparates ==
    LET a == test.a
        b == test.b
        m == test.m
        src(p) == IF p < m * a
                  THEN (p \div a) * (a + b) + (p % a)
                  ELSE ((p - m * a) \div b) * (a + b) + a + ((p - m * a) % b)
    IN (test.kind = "shuffle" /\ Returned) =>
           \A p \in 0..(test.n - 1) : buf[p + 1] = Input(test)[src(p) + 1]

\* C3 amended: shuffle rewrites (A0 A1 ... A_{m-1})(B0 B1 ... B_{m-1}) to
\* A0 B0 A1 B1 ... A_{m-1} B_{m-1}, and does not abort.
C3_ShuffleInterleaves ==
    LET a == test.a
        b == test.b
        m == test.m
        src(p) == IF p % (a + b) < a
                  THEN (p \div (a + b)) * a + (p % (a + b))
                  ELSE m * a + (p \div (a + b)) * b + ((p % (a + b)) - a)
    IN test.kind = "shuffle" =>
           /\ ~Aborted
           /\ Returned =>
                 \A p \in 0..(test.n - 1) : buf[p + 1] = Input(test)[src(p) + 1]

\* shuffle(V, 2, 1, 3) has returned and moved elements.
C3_Witness ==
    /\ test.kind = "shuffle" /\ test.a = 2 /\ test.b = 1 /\ test.m = 3
    /\ status = "done"
    /\ buf # Input(test)

\* C4: exchange(V, a, b) returns with V = B || A for all a, b >= 0; with
\* a = 0 or b = 0 it returns leaving V unchanged.
C4_ExchangeTotal ==
    test.kind = "exchange" =>
        /\ ~Aborted
        /\ Returned =>
              \A p \in 0..(test.n - 1) :
                  buf[p + 1] = Input(test)[((p + test.a) % test.n) + 1]

\* C5 as stated: transpose_join(V, k, n) leaves the kn x n matrix whose row i
\* is column (i mod n) of input block floor(i / n).
C5_JoinBlockwise ==
    LET k == test.a
        n == test.b
    IN (test.kind = "transpose_join" /\ Returned) =>
           \A i \in 0..(k * n - 1), c \in 0..(n - 1) :
               buf[i * n + c + 1] = Input(test)[(i \div n) * n * n + c * n + (i % n) + 1]

\* C5 amended: transpose_join(V, k, n) leaves the n x kn matrix whose row j
\* is column j of block 0, then column j of block 1, ..., then column j of
\* block k - 1: the transpose of the kn x n matrix the buffer held.
C5_JoinTransposes ==
    LET k == test.a
        n == test.b
    IN test.kind = "transpose_join" =>
           /\ ~Aborted
           /\ Returned =>
                 \A j \in 0..(n - 1), blk \in 0..(k - 1), i \in 0..(n - 1) :
                     buf[j * k * n + blk * n + i + 1] = Input(test)[blk * n * n + i * n + j + 1]

\* transpose_join of 3 blocks of side 2 has returned.
C5_Witness ==
    /\ test.kind = "transpose_join" /\ test.a = 3 /\ test.b = 2
    /\ status = "done"
    /\ buf # Input(test)

\* C6: the run of transpose with forks gives the buffer the run without
\* forks gave, for every interleaving of the forked children.
C6_SameResult ==
    (test.kind = "transpose" /\ round = 2) =>
        /\ ~Aborted
        /\ Returned => buf = ref

\* A forked run of a 3 x 5 transpose (wide, remainder 2) has returned, both
\* transposition-level and shuffle-level forks taken.
C6_Witness ==
    /\ test.kind = "transpose" /\ test.a = 3 /\ test.b = 5
    /\ round = 2 /\ parT = 0 /\ parS = 0
    /\ status = "done"
    /\ buf = ref /\ buf # Input(test)

\* C7: every call stays inside the slice it was given: a callee's slice lies
\* inside its caller's, the slices of two children of a fork are disjoint,
\* every element exchange swaps lies in its own slice, and no slicing panics.
C7_Slices ==
    ValidTranspose =>
        /\ status # "panic"
        /\ \A id \in DOMAIN frames \ {Root} : Inside(frames[Parent(id)], frames[id])
        /\ \A id \in DOMAIN frames :
              Kids(id) = {Append(id, 1), Append(id, 2)} =>
                  LET l == frames[Append(id, 1)]
                      r == frames[Append(id, 2)]
                  IN l.lo + l.n <= r.lo \/ r.lo + r.n <= l.lo
        /\ \A id \in DOMAIN frames :
              LET f == frames[id] IN
              (f.fn = "exchange" /\ f.pc = "swap" /\ f.i < ExchangeLen(f)) =>
                  \A x \in {ExchangePair(f)[1], ExchangePair(f)[2]} :
                      f.lo <= x /\ x < f.lo + f.n

\* Two forked children are running and one of them is swapping elements.
C7_Witness ==
    /\ ValidTranspose /\ status = "running"
    /\ \E id \in DOMAIN frames :
          /\ Kids(id) = {Append(id, 1), Append(id, 2)}
          /\ frames[Append(id, 1)].n > 0 /\ frames[Append(id, 2)].n > 0
    /\ \E id \in DOMAIN frames :
          frames[id].fn = "exchange" /\ frames[id].pc = "swap" /\ frames[id].i > 0

\* C8: every transpose call with |V| = rows * cols terminates (the test, and
\* with it ValidTranspose, is fixed throughout a behaviour).
C8_Terminates == <>(ValidTranspose => status = "done")

\* Both runs of a 6 x 4 transpose (tall, remainder 2) have returned.
C8_Witness ==
    /\ ValidTranspose /\ test.a = 6 /\ test.b = 4
    /\ round = 2 /\ status = "done"

\* C9: transpose with |V| # rows * cols aborts, for every shape, before any
\* element is moved: it never gets past its first statement.
C9_MismatchAborts ==
    (test.kind = "transpose" /\ test.n # test.a * test.b) =>
        /\ buf = Input(test)
        /\ \/ status = "panic"
           \/ /\ status = "running"
              /\ DOMAIN frames = {Root}
              /\ frames[Root].pc = "start"

\* A mismatched call with rows <= 1 has aborted.
C9_Witness ==
    /\ test.kind = "transpose" /\ test.n # test.a * test.b
    /\ test.a = 1 /\ test.b = 3
    /\ status = "panic"

\* A callee of frame f, in slot k, running fn.
Running(id, fn) ==
    \E k \in Kids(id) : frames[k].fn = fn

\* C10: the merging shuffle of transpose_join and of the tall transpose runs
\* only after both children returned; the children of partition_transpose and
\* of the wide transpose run only after unshuffle returned; the recursive
\* calls of shuffle run only after its exchange returned; the exchange of
\* unshuffle runs only after both recursive calls returned.
C10_Order ==
    ValidTranspose =>
        \A id \in DOMAIN frames :
            LET f == frames[id] IN
            /\ (f.fn = "transpose_join" /\ Running(id, "shuffle")) => f.rets = 2
            /\ (f.fn = "transpose" /\ Running(id, "shuffle")) => f.rets = 2
            /\ (f.fn = "partition_transpose" /\ Running(id, "partition_transpose")) =>
                   f.rets >= 1 /\ ~Running(id, "unshuffle")
            /\ (f.fn = "transpose" /\ 1 < f.a /\ f.a < f.b /\ remainder(f) # 0
                  /\ (Running(id, "partition_transpose") \/ Running(id, "transpose"))) =>
                   f.rets >= 1 /\ ~Running(id, "unshuffle")
            /\ (f.fn = "shuffle" /\ Running(id, "shuffle")) =>
                   f.rets >= 1 /\ ~Running(id, "exchange")
            /\ (f.fn = "unshuffle" /\ Running(id, "exchange")) =>
                   f.rets = 2 /\ ~Running(id, "unshuffle")

\* The exchange of an unshuffle is running inside a forked wide transpose.
C10_Witness ==
    /\ ValidTranspose /\ round = 2 /\ parS = 0
    /\ \E id \in DOMAIN frames :
          frames[id].fn = "unshuffle" /\ Running(id, "exchange") /\ frames[id].rets = 2

====
